---- MODULE Spec2Model ----
(***************************************************************************)
(* Model of pages/api/shopify/webhooks/order/updateSalesDonated.ts: the    *)
(* Shopify order webhook handler that verifies the HMAC signature of the   *)
(* raw request body and adds the order total to the sales_donated field of *)
(* a remote metaobject with a read call followed by a write call.          *)
(*                                                                         *)
(* Strings and buffers are sequences of one-character strings.  A JS       *)
(* number is a record [nan, v]; a possibly-undefined JS value is a record  *)
(* [def, s].                                                               *)
(***************************************************************************)
EXTENDS Integers, Sequences, FiniteSets, TLC

VARIABLES
    secret,     \* process.env.SHOPIFY_WEBHOOK_SECRET (<<>> when not set)
    fields,     \* the remote metaobject's fields, in the order the store returns them
    counter0,   \* the value of the counter field before the first delivery
    req,        \* per request: method and the three Shopify headers
    pending,    \* per request: bytes of the body the stream has not emitted yet
    chunks,     \* per request: getRawBody's chunks array
    rawBody,    \* per request: the resolved Buffer.concat(chunks)
    pc,         \* per request: position of the handler
    verified,   \* per request: outcome of verifyWebhook ("none" before it ran)
    price,      \* per request: webhookBody.current_total_price
    writeValue, \* per request: the value of the update mutation in flight
    status,     \* per request: sequence of the statuses sent with res.status().send()
    calls,      \* per request: the remote calls it issued, in order, with their outcomes
    seen,       \* per request: what its read call was served: the value the code
                \* extracts, the counter field, and the store's version
    version     \* the number of update mutations the remote store has applied

vars == <<secret, fields, counter0, req, pending, chunks, rawBody, pc, verified, price,
          writeValue, status, calls, seen, version>>

----------------------------------------------------------------------------
(* Bounds *)

ChunkLen == 6     \* size of a body chunk that is not the last one
DigestLen == 4    \* symbols of an encoded digest

\* two deliveries, which may overlap
Reqs == {1, 2}

----------------------------------------------------------------------------
(* JS values *)

NaN == [nan |-> TRUE, v |-> 0]
Num(n) == [nan |-> FALSE, v |-> n]

Undefined == [def |-> FALSE, s |-> <<>>]
Str(s) == [def |-> TRUE, s |-> s]

Digits == <<"0", "1", "2", "3", "4", "5", "6", "7", "8", "9">>

IsDigit(ch) == \E i \in 1..10 : Digits[i] = ch

DigitVal(ch) == (CHOOSE i \in 1..10 : Digits[i] = ch) - 1

\* String(v): the text JS coerces a value to
ToStringJS(x) ==
    IF x.def THEN x.s ELSE <<"u", "n", "d", "e", "f", "i", "n", "e", "d">>

RECURSIVE SkipSpace(_)
SkipSpace(s) ==
    IF s # <<>> /\ Head(s) = " " THEN SkipSpace(Tail(s)) ELSE s

\* the value of the longest prefix of decimal digits of s, acc so far
RECURSIVE DigitRun(_, _)
DigitRun(s, acc) ==
    IF s # <<>> /\ IsDigit(Head(s))
    THEN DigitRun(Tail(s), acc * 10 + DigitVal(Head(s)))
    ELSE acc

\* parseInt(x): leading blanks skipped, optional sign, then the longest run of
\* decimal digits; NaN when there is no digit
parseInt(x) ==
    LET s == SkipSpace(ToStringJS(x))
        neg == s # <<>> /\ Head(s) = "-"
        t == IF s # <<>> /\ Head(s) \in {"-", "+"} THEN Tail(s) ELSE s
    IN IF t = <<>> \/ ~IsDigit(Head(t)) THEN NaN
       ELSE Num(IF neg THEN 0 - DigitRun(t, 0) ELSE DigitRun(t, 0))

RECURSIVE NatToString(_)
NatToString(n) ==
    IF n < 10 THEN <<Digits[n + 1]>>
    ELSE NatToString(n \div 10) \o <<Digits[(n % 10) + 1]>>

\* `${x}` for a number
NumToString(x) ==
    IF x.nan THEN <<"N", "a", "N">>
    ELSE IF x.v < 0 THEN <<"-">> \o NatToString(0 - x.v)
    ELSE NatToString(x.v)

Plus(a, b) == IF a.nan \/ b.nan THEN NaN ELSE Num(a.v + b.v)

\* Math.floor: both operands of the sum are integers or NaN
MathFloor(x) == x

----------------------------------------------------------------------------
(* Signature: calculateHMAC and verifyWebhook *)

\* the characters of the modelled strings; a character's code is its position
Chars == <<"{", "}", ":", "q", "p", "t", ".", "x", "-", " ",
           "0", "1", "2", "3", "4", "5", "6", "7", "8", "9", "k", "j">>

CharCode(ch) == CHOOSE i \in 1..Len(Chars) : Chars[i] = ch

RECURSIVE Absorb(_, _)
Absorb(s, h) ==
    IF s = <<>> THEN h
    ELSE Absorb(Tail(s), (h * 31 + CharCode(Head(s))) % 251)

\* crypto.createHmac('sha256', key).update(body): a keyed digest of the bytes,
\* here a keyed polynomial checksum that has no collision on the modelled keys and bodies
createHmac(key, body) == Absorb(body, Absorb(key, 7))

Symbols == <<"A", "B", "C", "D">>

\* .digest('base64'): the digest as a text of fixed length
RECURSIVE digestBase64(_, _)
digestBase64(n, len) ==
    IF len = 0 THEN <<>>
    ELSE digestBase64(n \div Len(Symbols), len - 1) \o <<Symbols[(n % Len(Symbols)) + 1]>>

\* mutant: no check that the secret is set
calculateHMACUnchecked(key, body) == digestBase64(createHmac(key, body), DigestLen)

\* calculateHMAC with the secret it reads from the environment as a parameter
calculateHMACWith(key, body) ==
    IF key = <<>> THEN <<>>
    ELSE digestBase64(createHmac(key, body), DigestLen)

calculateHMAC(body) == calculateHMACWith(secret, body)

\* mutant: only the lengths are compared
timingSafeEqualLengths(a, b) == IF Len(a) # Len(b) THEN "throw" ELSE "true"

\* crypto.timingSafeEqual(a, b): throws a RangeError when the byte lengths differ
timingSafeEqual(a, b) ==
    IF Len(a) # Len(b) THEN "throw"
    ELSE IF a = b THEN "true" ELSE "false"

\* verifyWebhook(body, hmac): "true", "false", or "throw" when it throws
verifyWebhook(body, hmac) ==
    LET calculatedHmac == calculateHMAC(body)
    IN IF calculatedHmac = <<>> THEN "false"
       ELSE timingSafeEqual(calculatedHmac, hmac)

----------------------------------------------------------------------------
(* Request bodies and JSON.parse *)

\* The raw body is the sequence of the lexical units of its text: braces, colon,
\* "q" for a double quote, "p" for the quoted key current_total_price, "t" for
\* another quoted key, and the characters of a string value.
BodyOf(key, val) == <<"{", key, ":", "q">> \o val \o <<"q", "}">>

Body25 == BodyOf("p", <<"2", "5">>)
Body5 == BodyOf("p", <<"5">>)
BodyFrac == BodyOf("p", <<"5", ".", "9">>)
BodyText == BodyOf("p", <<"x">>)
BodyOther == BodyOf("t", <<"7">>)
BodyBad == <<"{", "p", ":">>

Bodies == {Body25, Body5, BodyFrac, BodyText, BodyOther, BodyBad}

\* JSON.parse(rawBody.toString()): [ok |-> FALSE] when it throws a SyntaxError,
\* else the object, which holds at most one key
JSONparse(s) ==
    LET n == Len(s)
    IN IF n = 2 /\ s[1] = "{" /\ s[2] = "}"
       THEN [ok |-> TRUE, keys |-> {}, key |-> "", val |-> <<>>]
       ELSE IF /\ n >= 6
               /\ s[1] = "{" /\ s[2] \in {"p", "t"} /\ s[3] = ":" /\ s[4] = "q"
               /\ s[n - 1] = "q" /\ s[n] = "}"
               /\ \A i \in 5..(n - 2) : s[i] \notin {"q", "{", "}", ":"}
            THEN [ok |-> TRUE, keys |-> {s[2]}, key |-> s[2],
                  val |-> SubSeq(s, 5, n - 2)]
            ELSE [ok |-> FALSE, keys |-> {}, key |-> "", val |-> <<>>]

\* webhookBody.current_total_price
current_total_price(obj) ==
    IF "p" \in obj.keys THEN Str(obj.val) ELSE Undefined

\* Buffer.concat(chunks)
RECURSIVE BufferConcat(_)
BufferConcat(cs) ==
    IF cs = <<>> THEN <<>> ELSE Head(cs) \o BufferConcat(Tail(cs))

----------------------------------------------------------------------------
(* The remote metaobject *)

CounterKey == <<"s", "a", "l", "e", "s", "_", "d", "o", "n", "a", "t", "e", "d">>
LabelKey == <<"l", "a", "b", "e", "l">>

Field(k, v) == [key |-> k, value |-> v]

\* the value of the field with key k
RECURSIVE FieldValue(_, _)
FieldValue(fs, k) ==
    IF fs = <<>> THEN <<>>
    ELSE IF Head(fs).key = k THEN Head(fs).value
    ELSE FieldValue(Tail(fs), k)

\* metaobjectUpdate with fields: [{key: k, value: v}]: the field with that key
\* gets the value, the other fields keep theirs
metaobjectUpdate(fs, k, v) ==
    [i \in 1..Len(fs) |-> IF fs[i].key = k THEN Field(k, v) ELSE fs[i]]

InitialCounters == {<<"1", "0", "0", "0">>, <<"x">>}
LabelValue == <<"7">>

InitialFields ==
    UNION {{<<Field(CounterKey, c)>>,
            <<Field(CounterKey, c), Field(LabelKey, LabelValue)>>,
            <<Field(LabelKey, LabelValue), Field(CounterKey, c)>>}
           : c \in InitialCounters}

----------------------------------------------------------------------------
(* updateSalesDonatedMetaobject *)

\* parseInt(getResponse.data.metaobject.fields[0].value)
currentTotalPrice(fs) == parseInt(Str(fs[1].value))

\* the first digit after the decimal point of s, 0 when there is none
RECURSIVE FirstDecimal(_)
FirstDecimal(s) ==
    IF s = <<>> THEN 0
    ELSE IF Head(s) = "." /\ Len(s) >= 2 /\ IsDigit(s[2]) THEN DigitVal(s[2])
    ELSE FirstDecimal(Tail(s))

\* mutant: Math.round(currentTotalPrice + parseFloat(orderTotalPrice))
priceToUpdateRounded(cur, orderTotalPrice) ==
    LET whole == parseInt(orderTotalPrice)
        text == ToStringJS(orderTotalPrice)
        up == ~whole.nan /\ FirstDecimal(text) >= 5 /\ Head(text) # "-"
    IN Plus(cur, IF up THEN Num(whole.v + 1) ELSE whole)

\* Math.floor(currentTotalPrice + parseInt(orderTotalPrice))
priceToUpdate(cur, orderTotalPrice) == MathFloor(Plus(cur, parseInt(orderTotalPrice)))

\* the value of the update mutation: `${priceToUpdate}`
updateValue(fs, orderTotalPrice) ==
    NumToString(priceToUpdate(currentTotalPrice(fs), orderTotalPrice))

----------------------------------------------------------------------------
(* Requests *)

Secret1 == <<"k">>
Secret2 == <<"j">>
Secrets == {<<>>, Secret1, Secret2}

Methods == {"POST", "GET"}

\* a header is undefined, empty or a text
Falsy(x) == ~x.def \/ x.s = <<>>

TopicHeaders == {Undefined, Str(<<"o">>)}
ShopHeaders == {Str(<<>>), Str(<<"s">>)}

\* x-shopify-hmac-sha256 of a request with body b: absent, empty, too short,
\* too long, the code of Body25 or the code of b under the secret the sender
\* signs with
HmacHeaders(key, b) ==
    {Undefined, Str(<<>>), Str(<<"A">>), Str([i \in 1..(DigestLen + 1) |-> "A"]),
     Str(calculateHMACWith(key, Body25)), Str(calculateHMACWith(key, b))}

\* the sender signs with the shared secret; Secret1 when none is configured here
SenderSecret == IF secret = <<>> THEN Secret1 ELSE secret

NoRequest == [method |-> "", hmac |-> Undefined, topic |-> Undefined,
              shop |-> Undefined, body |-> <<>>]

AllRequests ==
    UNION {[method : Methods, hmac : HmacHeaders(SenderSecret, b),
            topic : TopicHeaders, shop : ShopHeaders, body : {b}] : b \in Bodies}

Incomplete(q) == Falsy(q.hmac) \/ Falsy(q.topic) \/ Falsy(q.shop)

\* The deliveries: what the handler never reads of a request is left at one
\* value (the headers and body of a request that is not a POST, the body of a
\* POST without its headers).
Requests ==
    {q \in AllRequests :
        /\ q.method # "POST" =>
              q.hmac = Str(calculateHMACWith(SenderSecret, Body25)) /\ ~Incomplete(q)
        /\ (q.method # "POST" \/ Incomplete(q)) => q.body = Body25}

\* a remote call with its outcome, "pending" until shopifyGraphQL returns or throws
Call(op, outcome) == [op |-> op, outcome |-> outcome]

NotServed == [served |-> FALSE, value |-> <<>>, counter |-> <<>>, version |-> 0]

ReadOutcomes == {"ok", "noObject", "httpError", "reject"}
WriteOutcomes == {"ok", "userErrors", "httpError", "reject"}

----------------------------------------------------------------------------
(* The handler *)

Init ==
    /\ secret \in Secrets
    /\ fields \in InitialFields
    /\ counter0 = FieldValue(fields, CounterKey)
    /\ req = [r \in Reqs |-> NoRequest]
    /\ pending = [r \in Reqs |-> <<>>]
    /\ chunks = [r \in Reqs |-> <<>>]
    /\ rawBody = [r \in Reqs |-> <<>>]
    /\ pc = [r \in Reqs |-> "idle"]
    /\ verified = [r \in Reqs |-> "none"]
    /\ price = [r \in Reqs |-> Undefined]
    /\ writeValue = [r \in Reqs |-> <<>>]
    /\ status = [r \in Reqs |-> <<>>]
    /\ calls = [r \in Reqs |-> <<>>]
    /\ seen = [r \in Reqs |-> NotServed]
    /\ version = 0

\* res.status(code).send(...) followed by the handler's return
Respond(r, code) ==
    /\ status' = [status EXCEPT ![r] = Append(@, code)]
    /\ pc' = [pc EXCEPT ![r] = "done"]

\* mutant: the method check is missing
MethodAllowedAny(method) == TRUE

\* mutant: the header check asks for all three to be missing
HeadersMissingAll(hmac, topic, shop) == Falsy(hmac) /\ Falsy(topic) /\ Falsy(shop)

\* handler, line 16: req.method !== 'POST' is answered 405
MethodAllowed(method) == method = "POST"

\* handler, line 27: !hmac || !topic || !shop
HeadersMissing(hmac, topic, shop) == Falsy(hmac) \/ Falsy(topic) \/ Falsy(shop)

\* handler, lines 15-32: the method check, the header check and the call of
\* getRawBody, which registers the stream listeners
Handler(r) ==
    /\ pc[r] = "idle"
    /\ \E q \in Requests :
        /\ req' = [req EXCEPT ![r] = q]
        /\ pending' = [pending EXCEPT ![r] = q.body]
        /\ IF ~MethodAllowed(q.method) THEN Respond(r, 405)
           ELSE IF HeadersMissing(q.hmac, q.topic, q.shop) THEN Respond(r, 400)
           ELSE /\ pc' = [pc EXCEPT ![r] = "reading"]
                /\ UNCHANGED status
    /\ UNCHANGED <<secret, counter0, fields, chunks, rawBody, verified, price, writeValue,
                   calls, seen, version>>

\* the size of the next chunk the stream emits
ChunkSize(bytes) == IF Len(bytes) > ChunkLen THEN ChunkLen ELSE Len(bytes)

\* getRawBody, req.on('data'): the stream emits the next chunk
Data(r) ==
    /\ pc[r] = "reading"
    /\ pending[r] # <<>>
    /\ LET n == ChunkSize(pending[r])
       IN /\ chunks' = [chunks EXCEPT ![r] = Append(@, SubSeq(pending[r], 1, n))]
          /\ pending' = [pending EXCEPT ![r] = SubSeq(@, n + 1, Len(@))]
    /\ UNCHANGED <<secret, counter0, fields, req, rawBody, pc, verified, price, writeValue,
                   status, calls, seen, version>>

\* getRawBody, req.on('end'): the promise resolves with Buffer.concat(chunks)
StreamEnd(r) ==
    /\ pc[r] = "reading"
    /\ pending[r] = <<>>
    /\ rawBody' = [rawBody EXCEPT ![r] = BufferConcat(chunks[r])]
    /\ pc' = [pc EXCEPT ![r] = "verify"]
    /\ UNCHANGED <<secret, counter0, fields, req, pending, chunks, verified, price,
                   writeValue, status, calls, seen, version>>

\* mutant: on a stream error the promise resolves with the chunks received
StreamErrorResolves(r) ==
    /\ pc[r] = "reading"
    /\ rawBody' = [rawBody EXCEPT ![r] = BufferConcat(chunks[r])]
    /\ pc' = [pc EXCEPT ![r] = "verify"]
    /\ UNCHANGED <<secret, counter0, fields, req, pending, chunks, verified, price,
                   writeValue, status, calls, seen, version>>

\* getRawBody, req.on('error', reject): the await throws into the catch block
StreamError(r) ==
    /\ pc[r] = "reading"
    /\ Respond(r, 500)
    /\ UNCHANGED <<secret, counter0, fields, req, pending, chunks, rawBody, verified, price,
                   writeValue, calls, seen, version>>

\* mutant: the verification result is not checked
NotVerifiedNever(v) == FALSE

\* handler, line 38: if (!verified)
NotVerified(v) == v # "true"

\* mutant: the 401 answer is not followed by return
VerifyNoReturn(r) ==
    /\ pc[r] = "verify"
    /\ LET v == verifyWebhook(rawBody[r], req[r].hmac.s)
       IN /\ verified' = [verified EXCEPT ![r] = v]
          /\ IF v = "throw" THEN Respond(r, 500)
             ELSE /\ pc' = [pc EXCEPT ![r] = "parse"]
                  /\ status' = [status EXCEPT ![r] =
                                   IF NotVerified(v) THEN Append(@, 401) ELSE @]
    /\ UNCHANGED <<secret, counter0, fields, req, pending, chunks, rawBody, price,
                   writeValue, calls, seen, version>>

\* handler, lines 36-43: verifyWebhook and the 401 answer
Verify(r) ==
    /\ pc[r] = "verify"
    /\ LET v == verifyWebhook(rawBody[r], req[r].hmac.s)
       IN /\ verified' = [verified EXCEPT ![r] = v]
          /\ IF v = "throw" THEN Respond(r, 500)
             ELSE IF NotVerified(v) THEN Respond(r, 401)
             ELSE /\ pc' = [pc EXCEPT ![r] = "parse"]
                  /\ UNCHANGED status
    /\ UNCHANGED <<secret, counter0, fields, req, pending, chunks, rawBody, price,
                   writeValue, calls, seen, version>>

\* mutant: a body that does not parse is taken as an empty object
ParseLenient(r) ==
    /\ pc[r] = "parse"
    /\ LET webhookBody == JSONparse(rawBody[r])
       IN /\ price' = [price EXCEPT ![r] =
                          IF webhookBody.ok THEN current_total_price(webhookBody)
                          ELSE Undefined]
          /\ calls' = [calls EXCEPT ![r] = Append(@, Call("read", "pending"))]
          /\ pc' = [pc EXCEPT ![r] = "awaitRead"]
          /\ UNCHANGED status
    /\ UNCHANGED <<secret, counter0, fields, req, pending, chunks, rawBody, verified,
                   writeValue, seen, version>>

\* mutant: updateSalesDonatedMetaobject is called without await, the handler
\* answers 200 at once
ParseNoAwait(r) ==
    /\ pc[r] = "parse"
    /\ LET webhookBody == JSONparse(rawBody[r])
       IN IF ~webhookBody.ok
          THEN /\ Respond(r, 500)
               /\ UNCHANGED <<price, calls>>
          ELSE /\ price' = [price EXCEPT ![r] = current_total_price(webhookBody)]
               /\ calls' = [calls EXCEPT ![r] = Append(@, Call("read", "pending"))]
               /\ Respond(r, 200)
    /\ UNCHANGED <<secret, counter0, fields, req, pending, chunks, rawBody, verified,
                   writeValue, seen, version>>

\* handler, lines 47-54, and updateSalesDonatedMetaobject up to its first await:
\* JSON.parse, then the read call is issued
Parse(r) ==
    /\ pc[r] = "parse"
    /\ LET webhookBody == JSONparse(rawBody[r])
       IN IF ~webhookBody.ok
          THEN /\ Respond(r, 500)
               /\ UNCHANGED <<price, calls>>
          ELSE /\ price' = [price EXCEPT ![r] = current_total_price(webhookBody)]
               /\ calls' = [calls EXCEPT ![r] = Append(@, Call("read", "pending"))]
               /\ pc' = [pc EXCEPT ![r] = "awaitRead"]
               /\ UNCHANGED status
    /\ UNCHANGED <<secret, counter0, fields, req, pending, chunks, rawBody, verified,
                   writeValue, seen, version>>

\* mutant: a read call that fails with an HTTP error is issued once more
ReadReturnsRetry(r) ==
    /\ pc[r] = "awaitRead"
    /\ \E outcome \in ReadOutcomes :
        /\ seen' = [seen EXCEPT ![r] = IF outcome = "ok"
                                       THEN [served |-> TRUE,
                                             value |-> fields[1].value,
                                             counter |-> FieldValue(fields, CounterKey),
                                             version |-> version]
                                       ELSE @]
        /\ IF outcome = "ok"
           THEN /\ writeValue' = [writeValue EXCEPT ![r] = updateValue(fields, price[r])]
                /\ calls' = [calls EXCEPT ![r] =
                                <<Call("read", outcome), Call("write", "pending")>>]
                /\ pc' = [pc EXCEPT ![r] = "awaitWrite"]
                /\ UNCHANGED status
           ELSE IF outcome = "httpError" /\ Len(calls[r]) = 1
           THEN /\ calls' = [calls EXCEPT ![r] =
                                <<Call("read", outcome), Call("read", "pending")>>]
                /\ UNCHANGED <<pc, status, writeValue>>
           ELSE /\ calls' = [calls EXCEPT ![r] = <<Call("read", outcome)>>]
                /\ Respond(r, 500)
                /\ UNCHANGED writeValue
    /\ UNCHANGED <<secret, counter0, fields, req, pending, chunks, rawBody, verified,
                   price, version>>

\* shopifyGraphQL for the read query returns or throws; on a result the new
\* value is computed and the write call is issued
ReadReturns(r) ==
    /\ pc[r] = "awaitRead"
    /\ \E outcome \in ReadOutcomes :
        /\ seen' = [seen EXCEPT ![r] = IF outcome = "ok"
                                       THEN [served |-> TRUE,
                                             value |-> fields[1].value,
                                             counter |-> FieldValue(fields, CounterKey),
                                             version |-> version]
                                       ELSE @]
        /\ IF outcome = "ok"
           THEN /\ writeValue' = [writeValue EXCEPT ![r] = updateValue(fields, price[r])]
                /\ calls' = [calls EXCEPT ![r] =
                                <<Call("read", outcome), Call("write", "pending")>>]
                /\ pc' = [pc EXCEPT ![r] = "awaitWrite"]
                /\ UNCHANGED status
           ELSE /\ calls' = [calls EXCEPT ![r] = <<Call("read", outcome)>>]
                /\ Respond(r, 500)
                /\ UNCHANGED writeValue
    /\ UNCHANGED <<secret, counter0, fields, req, pending, chunks, rawBody, verified, price,
                   version>>

\* mutant: the new value is computed from the counter as it is when the write
\* is served
WriteReturnsFresh(r) ==
    /\ pc[r] = "awaitWrite"
    /\ \E outcome \in WriteOutcomes :
        /\ IF outcome = "ok"
           THEN /\ fields' = metaobjectUpdate(fields, CounterKey,
                                              updateValue(fields, price[r]))
                /\ version' = version + 1
           ELSE UNCHANGED <<fields, version>>
        /\ calls' = [calls EXCEPT ![r] = <<calls[r][1], Call("write", outcome)>>]
        /\ IF outcome \in {"httpError", "reject"} THEN Respond(r, 500)
           ELSE Respond(r, 200)
    /\ UNCHANGED <<secret, counter0, req, pending, chunks, rawBody, verified, price,
                   writeValue, seen>>

\* shopifyGraphQL for the update mutation returns or throws; the result is not
\* inspected, and the handler answers 200
WriteReturns(r) ==
    /\ pc[r] = "awaitWrite"
    /\ \E outcome \in WriteOutcomes :
        /\ IF outcome = "ok"
           THEN /\ fields' = metaobjectUpdate(fields, CounterKey, writeValue[r])
                /\ version' = version + 1
           ELSE UNCHANGED <<fields, version>>
        /\ calls' = [calls EXCEPT ![r] = <<calls[r][1], Call("write", outcome)>>]
        /\ IF outcome \in {"httpError", "reject"} THEN Respond(r, 500)
           ELSE Respond(r, 200)
    /\ UNCHANGED <<secret, counter0, req, pending, chunks, rawBody, verified, price,
                   writeValue, seen>>

Next ==
    \E r \in Reqs :
        \/ Handler(r)
        \/ Data(r)
        \/ StreamEnd(r)
        \/ StreamError(r)
        \/ Verify(r)
        \/ Parse(r)
        \/ ReadReturns(r)
        \/ WriteReturns(r)

Spec == Init /\ [][Next]_vars

\* The body stream eventually ends or emits an error, every step of the
\* handler that can run does run, and every remote call in flight eventually
\* returns or fails.
Fairness ==
    \A r \in Reqs :
        /\ WF_vars(Data(r))
        /\ WF_vars(StreamEnd(r) \/ StreamError(r))
        /\ WF_vars(Verify(r))
        /\ WF_vars(Parse(r))
        /\ WF_vars(ReadReturns(r))
        /\ WF_vars(WriteReturns(r))

\* the deliveries to a handler with Secret1 configured and an object that holds
\* the counter alone
FairInit ==
    /\ Init
    /\ secret = Secret1
    /\ fields = <<Field(CounterKey, <<"1", "0", "0", "0">>)>>

FairSpec == FairInit /\ [][Next]_vars /\ Fairness

----------------------------------------------------------------------------
(* Deliveries that do not overlap: a request is handled from its arrival to
   its answer while no other request is in progress *)

NoneInProgressBut(r) == \A o \in Reqs \ {r} : pc[o] \in {"idle", "done"}

SeqNext ==
    \E r \in Reqs :
        /\ NoneInProgressBut(r)
        /\ \/ Handler(r)
           \/ Data(r)
           \/ StreamEnd(r)
           \/ StreamError(r)
           \/ Verify(r)
           \/ Parse(r)
           \/ ReadReturns(r)
           \/ WriteReturns(r)

SeqSpec == Init /\ [][SeqNext]_vars

----------------------------------------------------------------------------
(* The computation of the new value on its own: one verified delivery whose
   read call is in flight, over more counter values and price texts *)

CounterTexts ==
    {<<"0">>, <<"7">>, <<"1", "0", "0">>, <<"9", "9", "5">>, <<"-", "4">>}

WholeParts == {<<"0">>, <<"5">>, <<"5", "0">>, <<"1", "2", "0">>, <<"-", "3">>}
Fractions == {<<>>, <<".", "9">>, <<".", "5">>, <<".", "0", "9">>, <<".", "0">>}

PriceTexts == {w \o f : w \in WholeParts, f \in Fractions}

ComputeInit ==
    \E c \in CounterTexts, p \in PriceTexts :
        LET body == BodyOf("p", p)
            first == 1
        IN /\ secret = Secret1
           /\ fields = <<Field(CounterKey, c)>>
           /\ counter0 = c
           /\ req = [r \in Reqs |->
                        IF r = first
                        THEN [method |-> "POST",
                              hmac |-> Str(calculateHMACWith(Secret1, body)),
                              topic |-> Str(<<"o">>), shop |-> Str(<<"s">>),
                              body |-> body]
                        ELSE NoRequest]
           /\ pending = [r \in Reqs |-> <<>>]
           /\ chunks = [r \in Reqs |-> IF r = first THEN <<body>> ELSE <<>>]
           /\ rawBody = [r \in Reqs |-> IF r = first THEN body ELSE <<>>]
           /\ pc = [r \in Reqs |-> IF r = first THEN "awaitRead" ELSE "idle"]
           /\ verified = [r \in Reqs |-> IF r = first THEN "true" ELSE "none"]
           /\ price = [r \in Reqs |->
                          IF r = first THEN current_total_price(JSONparse(body))
                          ELSE Undefined]
           /\ writeValue = [r \in Reqs |-> <<>>]
           /\ status = [r \in Reqs |-> <<>>]
           /\ calls = [r \in Reqs |->
                          IF r = first THEN <<Call("read", "pending")>> ELSE <<>>]
           /\ seen = [r \in Reqs |-> NotServed]
           /\ version = 0

ComputeNext ==
    \E r \in Reqs :
        \/ ReadReturns(r)
        \/ WriteReturns(r)

ComputeSpec == ComputeInit /\ [][ComputeNext]_vars

----------------------------------------------------------------------------
(* Vocabulary of the properties *)

\* s is the decimal text of an integer
IsIntString(s) ==
    /\ ~parseInt(Str(s)).nan
    /\ NumToString(parseInt(Str(s))) = s

IntOf(s) == parseInt(Str(s)).v

Answered(r, code) == pc[r] = "done" /\ status[r] = <<code>>

Received(r) == pc[r] # "idle"

IsPost(r) == req[r].method = "POST"

AllHeadersPresent(r) ==
    /\ req[r].hmac.def /\ req[r].hmac.s # <<>>
    /\ req[r].topic.def /\ req[r].topic.s # <<>>
    /\ req[r].shop.def /\ req[r].shop.s # <<>>

CounterNow == FieldValue(fields, CounterKey)

ReadOk == Call("read", "ok")
WriteOk == Call("write", "ok")

\* request r's update mutation was applied by the remote store
Applied(r) == Len(calls[r]) = 2 /\ calls[r][2] = WriteOk

----------------------------------------------------------------------------
(* C1 *)

\* C1: a verified POST with all headers whose body gives current_total_price
\* as the text of an integer d, served while the counter holds the integer c
\* and with every remote call succeeding, issues one read call, then one write
\* call that sets the field to the text of c + d, and is answered 200.
C1_ReadThenWriteSum ==
    \A r \in Reqs :
        (/\ pc[r] = "done"
         /\ IsPost(r) /\ AllHeadersPresent(r)
         /\ verified[r] = "true"
         /\ price[r].def /\ IsIntString(price[r].s)
         /\ seen[r].served /\ IsIntString(seen[r].counter)
         /\ \A i \in 1..Len(calls[r]) : calls[r][i].outcome = "ok")
        => /\ calls[r] = <<ReadOk, WriteOk>>
           /\ writeValue[r] = NumToString(Num(IntOf(seen[r].counter) + IntOf(price[r].s)))
           /\ status[r] = <<200>>

----------------------------------------------------------------------------
(* C2 *)

\* C2: a request has issued a remote call only if its method was POST, its
\* three headers were present and verifyWebhook returned true on its raw body;
\* a request answered 401 has issued no remote call, and the counter has been
\* written only by requests that passed verification.
C2_CallsOnlyAfterVerification ==
    /\ \A r \in Reqs :
        /\ (calls[r] # <<>> \/ seen[r].served) =>
              /\ IsPost(r) /\ AllHeadersPresent(r)
              /\ verified[r] = "true"
              /\ rawBody[r] = req[r].body
              /\ req[r].hmac.s = calculateHMAC(rawBody[r])
        /\ 401 \in {status[r][i] : i \in 1..Len(status[r])} =>
              calls[r] = <<>> /\ ~seen[r].served
    /\ version = Cardinality({r \in Reqs : Applied(r)})

C2_Witness ==
    \E r1, r2 \in Reqs :
        /\ Answered(r1, 401)
        /\ Applied(r2) /\ Answered(r2, 200)

----------------------------------------------------------------------------
(* C3 *)

\* C3: for a non-empty provided signature that differs from the computed code,
\* also when their lengths differ, verifyWebhook returns false without
\* throwing and the request is answered 401, not 500.
C3_MismatchIs401 ==
    \A r \in Reqs :
        (/\ verified[r] # "none"
         /\ req[r].hmac.s # <<>>
         /\ req[r].hmac.s # calculateHMAC(rawBody[r]))
        => verified[r] = "false" /\ Answered(r, 401)

----------------------------------------------------------------------------
(* C4 *)

\* C4: a POST request with one of the three headers missing or empty is
\* answered 400 and issues no remote call: it reads no body, runs no
\* verification and leaves the counter alone.
C4_MissingHeader400 ==
    \A r \in Reqs :
        (Received(r) /\ IsPost(r) /\ ~AllHeadersPresent(r))
        => /\ Answered(r, 400)
           /\ calls[r] = <<>> /\ ~seen[r].served
           /\ chunks[r] = <<>> /\ verified[r] = "none"
           /\ ~Applied(r)

C4_Witness ==
    \E r \in Reqs :
        /\ IsPost(r) /\ Answered(r, 400)
        /\ ~req[r].topic.def /\ req[r].hmac.def /\ req[r].hmac.s # <<>>

----------------------------------------------------------------------------
(* C5 *)

\* C5: a request whose method is not POST is answered 405; it never reads the
\* body stream, never runs verification and never issues a remote call.
C5_NotPost405 ==
    \A r \in Reqs :
        (Received(r) /\ ~IsPost(r))
        => /\ Answered(r, 405)
           /\ chunks[r] = <<>> /\ pending[r] = req[r].body /\ rawBody[r] = <<>>
           /\ verified[r] = "none"
           /\ calls[r] = <<>> /\ ~seen[r].served

C5_Witness ==
    \E r \in Reqs :
        /\ req[r].method = "GET" /\ Answered(r, 405)
        /\ AllHeadersPresent(r) /\ pending[r] # <<>>

----------------------------------------------------------------------------
(* C6 *)

\* C6 as stated: with no secret configured, every POST request with all its
\* headers is answered 401 and issues no remote call.
C6_NoSecretAlways401 ==
    secret = <<>> =>
        \A r \in Reqs :
            (pc[r] = "done" /\ IsPost(r) /\ AllHeadersPresent(r))
            => Answered(r, 401) /\ calls[r] = <<>>

\* C6 amended: with no secret configured, verifyWebhook returns false for
\* every raw body and signature it is given, so every POST request with all
\* its headers whose body stream ends without an error is answered 401; one
\* whose stream errors is answered 500; neither issues a remote call.
C6_NoSecretFailsClosed ==
    secret = <<>> =>
        \A r \in Reqs :
            /\ verified[r] \in {"none", "false"}
            /\ calculateHMAC(rawBody[r]) = <<>>
            /\ calls[r] = <<>> /\ ~seen[r].served
            /\ (pc[r] = "done" /\ IsPost(r) /\ AllHeadersPresent(r)) =>
                  \/ verified[r] = "false" /\ Answered(r, 401)
                  \/ verified[r] = "none" /\ Answered(r, 500)

C6_Witness ==
    /\ secret = <<>>
    /\ \E r \in Reqs :
        /\ IsPost(r) /\ AllHeadersPresent(r)
        /\ rawBody[r] = req[r].body /\ rawBody[r] # <<>>
        /\ verified[r] = "false" /\ Answered(r, 401)

----------------------------------------------------------------------------
(* C7 *)

\* C7: with a non-empty secret S, verification of the raw body P against the
\* signature hmac(P, S) returns true, and verification of another body against
\* that signature returns false.
C7_SignatureIsOfThePayload ==
    secret # <<>> =>
        \A r \in Reqs : \A P \in Bodies :
            (verified[r] # "none" /\ req[r].hmac.s = calculateHMACWith(secret, P))
            => /\ rawBody[r] = P => verified[r] = "true" /\ pc[r] # "verify"
               /\ rawBody[r] # P => verified[r] = "false" /\ Answered(r, 401)

C7_Witness ==
    \E r1, r2 \in Reqs :
        /\ secret # <<>>
        /\ req[r1].hmac = req[r2].hmac
        /\ req[r1].hmac.s = calculateHMACWith(secret, rawBody[r1])
        /\ verified[r1] = "true"
        /\ rawBody[r2] # rawBody[r1]
        /\ verified[r2] = "false" /\ Answered(r2, 401)

----------------------------------------------------------------------------
(* C8 *)

\* C8: a request whose update mutation is answered with a successful HTTP
\* status and a non-empty userErrors list is answered 500, never 200.
C8_UserErrorsIs500 ==
    \A r \in Reqs :
        (pc[r] = "done" /\ Len(calls[r]) = 2 /\ calls[r][2] = Call("write", "userErrors"))
        => Answered(r, 500)

----------------------------------------------------------------------------
(* C9 *)

\* C9: last writer wins on a stale read.  When two requests with integer
\* deltas d1 and d2 both read the integer counter c before any write was
\* applied, both writes are applied and both are answered 200, the counter
\* ends as c + d1 or c + d2; with positive deltas that is not c + d1 + d2.
C9_LastWriterWins ==
    \A r1, r2 \in Reqs :
        (/\ r1 # r2
         /\ Answered(r1, 200) /\ Answered(r2, 200)
         /\ Applied(r1) /\ Applied(r2)
         /\ seen[r1].version = 0 /\ seen[r2].version = 0
         /\ fields[1].key = CounterKey
         /\ IsIntString(seen[r1].counter)
         /\ ~parseInt(price[r1]).nan /\ ~parseInt(price[r2]).nan)
        => LET c == IntOf(seen[r1].counter)
               d1 == parseInt(price[r1]).v
               d2 == parseInt(price[r2]).v
           IN /\ seen[r2].counter = seen[r1].counter
              /\ CounterNow \in {NumToString(Num(c + d1)), NumToString(Num(c + d2))}
              /\ (d1 > 0 /\ d2 > 0) => CounterNow # NumToString(Num(c + d1 + d2))

\* the lost update: both read 1000, 25 and 5 are added, both are answered 200
C9_Witness ==
    \E r1, r2 \in Reqs :
        /\ r1 # r2
        /\ Answered(r1, 200) /\ Answered(r2, 200)
        /\ Applied(r1) /\ Applied(r2)
        /\ seen[r1].version = 0 /\ seen[r2].version = 0
        /\ seen[r1].counter = <<"1", "0", "0", "0">>
        /\ seen[r2].counter = <<"1", "0", "0", "0">>
        /\ price[r1] = Str(<<"2", "5">>) /\ price[r2] = Str(<<"5">>)
        /\ CounterNow \in {<<"1", "0", "2", "5">>, <<"1", "0", "0", "5">>}

----------------------------------------------------------------------------
(* C10 *)

\* C10: no partial success: a request is answered 200 with its update applied
\* to the counter, or it is answered another status and has not modified the
\* counter.
C10_NoPartialSuccess ==
    \A r \in Reqs :
        pc[r] = "done" =>
            \/ Answered(r, 200) /\ Applied(r)
            \/ ~Answered(r, 200) /\ ~Applied(r)

----------------------------------------------------------------------------
(* C11 *)

\* C11: when the counter field the read call returns is not numeric, the
\* request issues no write call and is answered 500.
C11_NonNumericCounterFails ==
    \A r \in Reqs :
        (seen[r].served /\ parseInt(Str(seen[r].counter)).nan)
        => /\ Len(calls[r]) = 1
           /\ pc[r] = "done" /\ status[r] = <<500>>
           /\ ~Applied(r)

----------------------------------------------------------------------------
(* C12 *)

\* C12: a remote call that fails with a non-2xx HTTP status is answered 500
\* and is not issued again: a request issues at most one read call and then at
\* most one write call, and none after a read call that failed.
C12_HttpErrorIs500NoRetry ==
    \A r \in Reqs :
        /\ Len(calls[r]) <= 2
        /\ Len(calls[r]) >= 1 => calls[r][1].op = "read"
        /\ Len(calls[r]) = 2 => calls[r][2].op = "write" /\ calls[r][1] = ReadOk
        /\ \A i \in 1..Len(calls[r]) :
              calls[r][i].outcome = "httpError" =>
                  /\ i = Len(calls[r])
                  /\ Answered(r, 500)
                  /\ ~Applied(r)

C12_Witness ==
    \E r1, r2 \in Reqs :
        /\ calls[r1] = <<Call("read", "httpError")>> /\ Answered(r1, 500)
        /\ calls[r2] = <<ReadOk, Call("write", "httpError")>> /\ Answered(r2, 500)
        /\ CounterNow = counter0

----------------------------------------------------------------------------
(* C13 *)

\* s is an optional minus sign followed by decimal digits
IsDecimalInt(s) ==
    LET t == IF s # <<>> /\ Head(s) = "-" THEN Tail(s) ELSE s
    IN t # <<>> /\ \A i \in 1..Len(t) : IsDigit(t[i])

DecimalValue(s) ==
    IF Head(s) = "-" THEN 0 - DigitRun(Tail(s), 0) ELSE DigitRun(s, 0)

\* the text before the first decimal point
RECURSIVE WholePart(_)
WholePart(s) ==
    IF s = <<>> \/ Head(s) = "." THEN <<>> ELSE <<Head(s)>> \o WholePart(Tail(s))

\* C13: for an integer counter value c and a price text whose integer part is
\* n, followed by any fractional part, the value written is the text of
\* c + n: the fraction is discarded, not rounded.
C13_FractionDiscarded ==
    \A r \in Reqs :
        (/\ seen[r].served
         /\ IsDecimalInt(seen[r].value)
         /\ price[r].def /\ IsDecimalInt(WholePart(price[r].s)))
        => /\ Len(calls[r]) = 2
           /\ writeValue[r] = NumToString(Num(DecimalValue(seen[r].value)
                                              + DecimalValue(WholePart(price[r].s))))

\* computeNewValue(100, "50.9") = 150, written to the counter
C13_Witness ==
    \E r \in Reqs :
        /\ seen[r].value = <<"1", "0", "0">>
        /\ price[r] = Str(<<"5", "0", ".", "9">>)
        /\ writeValue[r] = <<"1", "5", "0">>
        /\ Applied(r) /\ CounterNow = <<"1", "5", "0">>

----------------------------------------------------------------------------
(* C14 *)

Statuses(r) == {status[r][i] : i \in 1..Len(status[r])}

\* C14: within a request the steps follow one another: verification runs only
\* on the body of the ended stream, the read call is issued only after
\* verification and JSON.parse succeeded, the write call only after the read
\* call's response was received, the 200 answer only after the write call's.
C14_StepsInOrder ==
    \A r \in Reqs :
        /\ (pc[r] = "verify" \/ verified[r] # "none") =>
              /\ pending[r] = <<>>
              /\ rawBody[r] = BufferConcat(chunks[r])
              /\ rawBody[r] = req[r].body
        /\ calls[r] # <<>> =>
              /\ verified[r] = "true"
              /\ JSONparse(rawBody[r]).ok
              /\ calls[r][1].op = "read"
        /\ Len(calls[r]) = 2 =>
              /\ calls[r][1] = ReadOk /\ seen[r].served
              /\ calls[r][2].op = "write"
        /\ pc[r] = "awaitRead" <=> (calls[r] # <<>> /\ calls[r][Len(calls[r])] = Call("read", "pending"))
        /\ pc[r] = "awaitWrite" <=> (calls[r] # <<>> /\ calls[r][Len(calls[r])] = Call("write", "pending"))
        /\ 200 \in Statuses(r) =>
              /\ Len(calls[r]) = 2
              /\ calls[r][2].outcome \in WriteOutcomes

C14_Witness ==
    \E r \in Reqs :
        /\ Len(chunks[r]) = 2
        /\ verified[r] = "true"
        /\ calls[r] = <<ReadOk, WriteOk>>
        /\ Answered(r, 200)

----------------------------------------------------------------------------
(* C15 *)

\* C15: whatever the number and order of the object's fields, the current
\* value a request computes from is the value of the sales_donated field,
\* the field its write call updates.
C15_ReadsTheCounterField ==
    \A r \in Reqs :
        seen[r].served => seen[r].value = seen[r].counter

----------------------------------------------------------------------------
(* C16 *)

\* C16: when the counter starts as the text of an integer, every value a
\* request writes is the text of an integer and the counter stays one, also
\* for verified bodies without a numeric current_total_price.
C16_CounterStaysInteger ==
    IsIntString(counter0) =>
        /\ IsIntString(CounterNow)
        /\ \A r \in Reqs : Len(calls[r]) = 2 => IsIntString(writeValue[r])

----------------------------------------------------------------------------
(* C17 *)

\* C17: a request whose signature verifies and whose body is not valid JSON
\* is answered 500 and issues no remote call.
C17_InvalidJsonIs500 ==
    \A r \in Reqs :
        (verified[r] = "true" /\ ~JSONparse(rawBody[r]).ok /\ pc[r] # "parse")
        => /\ Answered(r, 500)
           /\ calls[r] = <<>> /\ ~seen[r].served
           /\ ~Applied(r)

C17_Witness ==
    \E r \in Reqs :
        /\ verified[r] = "true"
        /\ rawBody[r] = BodyBad
        /\ Answered(r, 500) /\ calls[r] = <<>>
        /\ CounterNow = counter0

----------------------------------------------------------------------------
(* C18 *)

\* C18: a stream error before the end fails the body capture: a request whose
\* body was not delivered whole runs no verification, issues no remote call
\* and is answered 500; a body captured from a stream that ended is the
\* concatenation of all its chunks in arrival order, the bytes that were sent.
C18_NoPartialBody ==
    \A r \in Reqs :
        /\ (IsPost(r) /\ AllHeadersPresent(r) /\ pc[r] # "reading"
            /\ (pending[r] # <<>> \/ (pc[r] = "done" /\ verified[r] = "none"))) =>
              /\ Answered(r, 500)
              /\ rawBody[r] = <<>> /\ verified[r] = "none"
              /\ calls[r] = <<>> /\ ~seen[r].served
        /\ (pc[r] = "verify" \/ verified[r] # "none") =>
              /\ pending[r] = <<>>
              /\ rawBody[r] = BufferConcat(chunks[r])
              /\ rawBody[r] = req[r].body

\* an error after the first of two chunks, and a body captured from two chunks
C18_Witness ==
    \E r1, r2 \in Reqs :
        /\ Len(chunks[r1]) = 1 /\ pending[r1] # <<>> /\ Answered(r1, 500)
        /\ Len(chunks[r2]) = 2 /\ rawBody[r2] = chunks[r2][1] \o chunks[r2][2]
        /\ rawBody[r2] = req[r2].body /\ verified[r2] # "none"

----------------------------------------------------------------------------
(* C19 *)

AnswerStatuses == {200, 400, 401, 405, 500}

\* C19: every request is answered exactly once.  A request never has more
\* than one response, a response is never followed by a second one, and when
\* the body stream ends or errors and the remote calls return or fail, a
\* received request is eventually answered with one of 200, 400, 401, 405, 500.
C19_AnsweredExactlyOnce ==
    /\ [](\A r \in Reqs :
            /\ Len(status[r]) <= 1
            /\ Statuses(r) \subseteq AnswerStatuses
            /\ pc[r] = "done" <=> Len(status[r]) = 1)
    /\ [][\A r \in Reqs : status[r] # <<>> => status'[r] = status[r]]_vars
    /\ \A r \in Reqs : (pc[r] # "idle") ~> (pc[r] = "done" /\ Len(status[r]) = 1)

C19_Witness ==
    \E r1, r2 \in Reqs :
        /\ status[r1] = <<200>> /\ pc[r1] = "done" /\ Applied(r1)
        /\ status[r2] = <<500>> /\ pc[r2] = "done"
        /\ calls[r2] = <<Call("read", "reject")>>

----------------------------------------------------------------------------
(* C20 *)

\* the integer delta of request r
DeltaOf(r) == parseInt(price[r]).v

RECURSIVE SumOfDeltas(_)
SumOfDeltas(S) ==
    IF S = {} THEN 0
    ELSE LET r == CHOOSE x \in S : TRUE
         IN DeltaOf(r) + SumOfDeltas(S \ {r})

\* C20: when the deliveries do not overlap and the counter starts as an
\* integer, the counter is its initial value plus the sum of the integer
\* deltas of exactly the requests answered 200.
C20_CounterIsSumOfDeltas ==
    (/\ IsIntString(counter0)
     /\ \A r \in Reqs : Answered(r, 200) => ~parseInt(price[r]).nan)
    => CounterNow = NumToString(Num(IntOf(counter0)
                                    + SumOfDeltas({r \in Reqs : Answered(r, 200)})))

====
